---- MODULE Spec2Model ----
(***************************************************************************)
(* Model of the rate-limit-aware HTTP layer of the Trading 212 client     *)
(* (src/src/trading212_mcp_server/api/client.py): T212Client._request,     *)
(* _wait_for_rate_limit, _update_rate_limit and drain_wait_time.           *)
(*                                                                         *)
(* Time is counted in ticks of 1/6 second.  Half a second is 3 ticks, and  *)
(* no tick count lies exactly between two tenths of a second, so rounding  *)
(* to one decimal never meets a tie (where binary floats would decide).    *)
(* drain_wait_time returns tenths of a second.                             *)
(*                                                                         *)
(* Spec    : one _request on a freshly constructed client, against every   *)
(*           combination of status, rate-limit headers and latency.        *)
(* SeqSpec : several requests, pauses and drains on the one client,        *)
(*           against a smaller choice of responses.                        *)
(* ConcSpec: threads sharing the client's wait accumulator.                *)
(* PageSpec: _paginate against a server's chain of pages (PageFairSpec:    *)
(*           the same, the loop never stopping of its own accord).         *)
(* DivPageSpec: the paging of fetch_dividend_summary against a server.     *)
(* DivSumSpec: the aggregation of fetch_dividend_summary on lists of       *)
(*           dividends.                                                    *)
(* SummarySpec: fetch_portfolio_summary on lists of positions.             *)
(* PerfSpec: fetch_portfolio_performance on positions, orders, dividends.  *)
(* ActivitySpec: fetch_recent_activity on orders and transactions.         *)
(* PieSpec: create_pie and update_pie on pie request objects.              *)
(* CancelSpec: repeated cancel_order calls against a server's orders.      *)
(***************************************************************************)
EXTENDS Integers, Sequences, FiniteSets, TLC

\* ---------------------------------------------------------------- bounds
MaxRequests == 2          \* logical requests issued on the client
MaxDrainsInRow == 2       \* drain_wait_time calls between two requests

\* ------------------------------------------------------------- constants
TicksPerSecond == 6
MAX_RETRIES == 3
MaxSleepSeconds == 60
DefaultRemaining == 1
DefaultReset == 0
MinRetryWaitSeconds == 1

HalfSecond == TicksPerSecond \div 2
MaxSleep == MaxSleepSeconds * TicksPerSecond
Secs(n) == n * TicksPerSecond

\* ---------------------------------------------------------------- inputs
\* URLs are character sequences; "?" starts the query string.
URLs == { <<"a", "?", "c">>, <<"b">> }

\* the clock when the client is constructed (epoch seconds are large)
StartTime == Secs(1000)

\* time a transport call takes, in ticks
Latencies == {1}

\* time between two requests, in ticks
IdleGaps == { Secs(10) + 1 }

\* a header is absent, an integer literal, or text int() rejects
Absent == [kind |-> "absent", val |-> 0]
Junk == [kind |-> "junk", val |-> 0]
IntHdr(n) == [kind |-> "int", val |-> n]

\* x-ratelimit-remaining values the server sends; int() accepts a sign
RemainingHeaders == {Absent, Junk, IntHdr(-1), IntHdr(0), IntHdr(2)}

\* x-ratelimit-reset is epoch seconds: offsets from the server's clock
ResetOffsets == {-10, 5, 90, 120}
ResetHeaders(t) == {Absent, Junk} \cup { IntHdr((t \div TicksPerSecond) + d) : d \in ResetOffsets }

Statuses == {200, 204, 401, 429, 500}
Bodies == {"b1", "b2"}
\* response bodies: only 200 and 500 responses vary in their body
BodiesOf(status) == IF status \in {200, 500} THEN Bodies ELSE {"b1"}

Failures ==
  [kind : {"connect", "timeout"}, status : {0}, remaining : {Absent},
   reset : {Absent}, body : {"b1"}]

Http(status, remaining, reset, body) ==
  [kind |-> "http", status |-> status, remaining |-> remaining,
   reset |-> reset, body |-> body]

\* what one transport call can produce at time t
Outcomes(t) ==
  { Http(x[1], x[2], x[3], x[4]) :
      x \in { y \in Statuses \X RemainingHeaders \X ResetHeaders(t) \X Bodies :
                y[4] \in BodiesOf(y[1]) } }
  \cup Failures

\* the smaller choice of responses of SeqSpec
SeqHeaders(t) ==
  LET sec == t \div TicksPerSecond IN
  { <<IntHdr(0), IntHdr(sec + 120)>>, <<IntHdr(0), IntHdr(sec + 5)>>,
    <<Junk, IntHdr(sec + 5)>>, <<Absent, Absent>> }
SeqOutcomes(t) ==
  { Http(200, h[1], h[2], "b1") : h \in SeqHeaders(t) }
  \cup { Http(429, h[1], h[2], "b1") : h \in { g \in SeqHeaders(t) : g[1] = IntHdr(0) } }
  \cup { Http(500, Absent, Absent, "b1") }
  \cup Failures

\* ----------------------------------------------------------------- state
VARIABLES
  now,          \* time.time(), in ticks
  rate_limits,  \* self._rate_limits: endpoint -> [remaining, reset (seconds)]
  total_wait,   \* self._total_wait, in ticks
  pc,           \* "idle" | "before" | "send" | "done": position in _request
  attempt,      \* loop variable of _request
  url,          \* argument of the running _request
  result,       \* how the last _request ended
  lastDrain,    \* the last drain_wait_time: [from (ticks), ret (tenths)]
  prevDrain,    \* the drain_wait_time before it, since the last request
  drainsInRow,  \* drains performed since the last other operation
  lastOp,       \* name of the last operation performed
  nreq,         \* requests issued so far
  \* ---- history of the running request (observation only)
  outcomes,     \* outcome of every transport call of this request
  sleeps,       \* every sleep of this request: [kind, dur, at]
  sleptSinceDrain, \* ticks actually slept on this client since last drain
  bs,           \* the last _wait_for_rate_limit: what it saw and did
  rx,           \* the last transport call: what the client state was before
  \* ---- threads sharing the client (ConcSpec)
  thr,          \* thread -> [pc, reg (value it loaded), d, ops]
  recorded,     \* sum of the sleep durations the threads recorded
  returned,     \* sum of the values the drains read, before rounding
  \* ---- the paging loops (PageSpec, DivPageSpec)
  server,       \* path or cursor -> the page the server answers with
  pg,           \* the loop's locals and the requests it has sent
  \* ---- the tools that compute or build something (one call each)
  inp,          \* what the call is given
  out,          \* what it returns or sends
  \* ---- cancel_order (CancelSpec)
  cancelled,    \* server side: the orders that are cancelled
  sent,         \* the requests the running call has put on the wire
  snap          \* the running call: its order and the client state it met

\* the state of the one-caller specifications
client == <<now, rate_limits, total_wait, pc, attempt, url, result, lastDrain,
            prevDrain, drainsInRow, lastOp, nreq, outcomes, sleeps,
            sleptSinceDrain, bs, rx>>

\* the state the other specifications add
conc == <<thr, recorded, returned>>
page == <<server, pg>>
calc == <<inp, out>>
canc == <<cancelled, sent, snap>>
ext == <<conc, page, calc, canc>>

vars == <<client, ext>>

\* -------------------------------------------------------- pure functions
Min(a, b) == IF a < b THEN a ELSE b
Max(a, b) == IF a > b THEN a ELSE b

\* url.split("?")[0]
RECURSIVE Endpoint(_)
Endpoint(u) ==
  IF u = <<>> \/ Head(u) = "?" THEN <<>>
  ELSE <<Head(u)>> \o Endpoint(Tail(u))

Endpoints == { Endpoint(u) : u \in URLs }

\* int(headers.get(name, default)) succeeds
Parses(h) == h.kind # "junk"
\* its value when it does
IntOf(h, default) == IF h.kind = "absent" THEN default ELSE h.val

\* round(elapsed, 1): ticks to the nearest tenth of a second
Round1(x) == (20 * x + TicksPerSecond) \div (2 * TicksPerSecond)

\* variant: an exhausted quota (remaining = 0) is not waited for
ThrottleSleepStrict(rl, u, t) ==
  LET e == Endpoint(u) IN
  IF e \notin DOMAIN rl THEN 0
  ELSE IF rl[e].remaining < 0
       THEN LET wait == Secs(rl[e].reset) - t IN
            IF wait > 0 THEN Min(wait + HalfSecond, MaxSleep) ELSE 0
       ELSE 0

\* variant: an entry with quota left is waited for as well
ThrottleSleepIgnoresRemaining(rl, u, t) ==
  LET e == Endpoint(u) IN
  IF e \notin DOMAIN rl THEN 0
  ELSE LET wait == Secs(rl[e].reset) - t IN
       IF wait > 0 THEN Min(wait + HalfSecond, MaxSleep) ELSE 0

\* variant: the wait is not capped
ThrottleSleepNoCap(rl, u, t) ==
  LET e == Endpoint(u) IN
  IF e \notin DOMAIN rl THEN 0
  ELSE IF rl[e].remaining <= 0
       THEN LET wait == Secs(rl[e].reset) - t IN
            IF wait > 0 THEN wait + HalfSecond ELSE 0
       ELSE 0

\* _wait_for_rate_limit: the time it sleeps at time t with map rl
ThrottleSleep(rl, u, t) ==
  LET e == Endpoint(u) IN
  IF e \notin DOMAIN rl THEN 0
  ELSE IF rl[e].remaining <= 0
       THEN LET wait == Secs(rl[e].reset) - t IN
            IF wait > 0 THEN Min(wait + HalfSecond, MaxSleep) ELSE 0
       ELSE 0

\* variant: recording one endpoint forgets the others
UpdateRateLimitClobber(rl, u, remaining, reset) ==
  LET e == Endpoint(u) IN
  IF Parses(remaining) /\ Parses(reset)
  THEN [k \in {e} |-> [remaining |-> IntOf(remaining, DefaultRemaining),
                       reset |-> IntOf(reset, DefaultReset)]]
  ELSE rl

\* _update_rate_limit: the map after recording headers
UpdateRateLimit(rl, u, remaining, reset) ==
  LET e == Endpoint(u) IN
  IF Parses(remaining) /\ Parses(reset)
  THEN [k \in DOMAIN rl \cup {e} |->
          IF k = e THEN [remaining |-> IntOf(remaining, DefaultRemaining),
                         reset |-> IntOf(reset, DefaultReset)]
          ELSE rl[k]]
  ELSE rl

\* the 429 branch: sleep before the retry, given the parsed reset and time t
RetrySleep(reset, t) ==
  LET wait == Max(Secs(reset) - t, Secs(MinRetryWaitSeconds)) IN
  Min(wait + HalfSecond, MaxSleep)

\* variant: one attempt too many
AttemptsRemainOffByOne(a) == a < MAX_RETRIES

\* attempts remain after a 429 on attempt a
AttemptsRemain(a) == a < MAX_RETRIES - 1

\* variant: server errors are retried as well
RetryableAlso5xx(status) == status = 429 \/ status >= 500

\* 429 is the status that is retried
Retryable(status) == status = 429

\* variant: 200 is the only status that counts as success
IsSuccessOnly200(status) == status = 200

\* response.raise_for_status() does not raise
IsSuccess(status) == status >= 200 /\ status < 300

Res(kind, status, body) == [kind |-> kind, status |-> status, body |-> body]
NoResult == Res("none", 0, "b1")

\* the loop continues after outcome o on attempt a: a 429 with attempts
\* left whose reset header int() accepts (line 94 is outside any try)
ShouldRetry(o, a) ==
  /\ o.kind = "http"
  /\ ~IsSuccess(o.status)
  /\ o.status # 401
  /\ Retryable(o.status)
  /\ AttemptsRemain(a)
  /\ Parses(o.reset)

\* variant: 401 is not told apart from the other error statuses
ClassifyAuthAsApi(o, a) ==
  CASE o.kind = "connect" -> Res("cannot_connect", 0, "b1")
    [] o.kind = "timeout" -> Res("timed_out", 0, "b1")
    [] o.kind = "http" /\ IsSuccess(o.status) /\ o.status = 204 ->
         Res("return_none", o.status, "b1")
    [] o.kind = "http" /\ IsSuccess(o.status) /\ o.status # 204 ->
         Res("return_json", o.status, o.body)
    [] o.kind = "http" /\ ~IsSuccess(o.status)
         /\ Retryable(o.status) /\ AttemptsRemain(a) ->
         Res("value_error", o.status, "b1")
    [] o.kind = "http" /\ ~IsSuccess(o.status)
         /\ Retryable(o.status) /\ ~AttemptsRemain(a) ->
         Res("rate_limited", o.status, "b1")
    [] OTHER -> Res("api_error", o.status, o.body)

\* variant: a timeout is reported as a connect failure
ClassifyTimeoutAsConnect(o, a) ==
  CASE o.kind \in {"connect", "timeout"} -> Res("cannot_connect", 0, "b1")
    [] o.kind = "http" /\ IsSuccess(o.status) /\ o.status = 204 ->
         Res("return_none", o.status, "b1")
    [] o.kind = "http" /\ IsSuccess(o.status) /\ o.status # 204 ->
         Res("return_json", o.status, o.body)
    [] o.kind = "http" /\ ~IsSuccess(o.status) /\ o.status = 401 ->
         Res("auth_failed", o.status, "b1")
    [] o.kind = "http" /\ ~IsSuccess(o.status) /\ o.status # 401
         /\ Retryable(o.status) /\ AttemptsRemain(a) ->
         Res("value_error", o.status, "b1")
    [] o.kind = "http" /\ ~IsSuccess(o.status) /\ o.status # 401
         /\ Retryable(o.status) /\ ~AttemptsRemain(a) ->
         Res("rate_limited", o.status, "b1")
    [] OTHER -> Res("api_error", o.status, o.body)

\* how _request ends after outcome o on attempt a, when it does not retry
Classify(o, a) ==
  CASE o.kind = "connect" -> Res("cannot_connect", 0, "b1")
    [] o.kind = "timeout" -> Res("timed_out", 0, "b1")
    [] o.kind = "http" /\ IsSuccess(o.status) /\ o.status = 204 ->
         Res("return_none", o.status, "b1")
    [] o.kind = "http" /\ IsSuccess(o.status) /\ o.status # 204 ->
         Res("return_json", o.status, o.body)
    [] o.kind = "http" /\ ~IsSuccess(o.status) /\ o.status = 401 ->
         Res("auth_failed", o.status, "b1")
    [] o.kind = "http" /\ ~IsSuccess(o.status) /\ o.status # 401
         /\ Retryable(o.status) /\ AttemptsRemain(a) ->
         Res("value_error", o.status, "b1")
    [] o.kind = "http" /\ ~IsSuccess(o.status) /\ o.status # 401
         /\ Retryable(o.status) /\ ~AttemptsRemain(a) ->
         Res("rate_limited", o.status, "b1")
    [] OTHER -> Res("api_error", o.status, o.body)

NoBs == [url |-> <<>>, at |-> 0, slept |-> 0, tracked |-> FALSE,
         remaining |-> 0, reset |-> 0]
NoRx == [at |-> 0, tw |-> 0, slept |-> 0, attempt |-> 0, rl |-> <<>>]
NoDrain == [from |-> 0, ret |-> 0]

\* ------------------------------------------------------------------ Init
\* the client after __init__
ClientInit ==
  /\ now = StartTime
  /\ rate_limits = <<>>
  /\ total_wait = 0
  /\ pc = "idle"
  /\ attempt = 0
  /\ url = <<>>
  /\ result = NoResult
  /\ lastDrain = NoDrain
  /\ prevDrain = NoDrain
  /\ drainsInRow = 0
  /\ lastOp = "init"
  /\ nreq = 0
  /\ outcomes = <<>>
  /\ sleeps = <<>>
  /\ sleptSinceDrain = 0
  /\ bs = NoBs
  /\ rx = NoRx

\* threads that have not touched the client yet
Threads == {1, 2}
ConcInit ==
  /\ thr = [t \in Threads |-> [pc |-> "ready", reg |-> 0, d |-> 0, ops |-> 0]]
  /\ recorded = 0
  /\ returned = 0

\* no paging loop running
NoPg == [pc |-> "idle"]
PageIdle ==
  /\ server = "none"
  /\ pg = NoPg

\* no tool called
NoValue == [called |-> FALSE]
CalcIdle ==
  /\ inp = NoValue
  /\ out = NoValue

\* no cancel_order called
NoSnap == [order_id |-> "none", was |-> FALSE, repeats |-> 0, rl |-> <<>>]
CancIdle ==
  /\ cancelled = {}
  /\ sent = <<>>
  /\ snap = NoSnap

Init ==
  /\ ClientInit
  /\ ConcInit
  /\ PageIdle
  /\ CalcIdle
  /\ CancIdle

Quiet == pc \in {"idle", "done"}

\* --------------------------------------------------------------- actions
\* a caller enters _request(method, u)
Call(u) ==
  /\ Quiet
  /\ nreq < MaxRequests
  /\ nreq' = nreq + 1
  /\ pc' = "before"
  /\ attempt' = 0
  /\ url' = u
  /\ result' = NoResult
  /\ outcomes' = <<>>
  /\ sleeps' = <<>>
  /\ bs' = NoBs
  /\ rx' = NoRx
  /\ lastOp' = "call"
  /\ drainsInRow' = 0
  /\ lastDrain' = NoDrain
  /\ prevDrain' = NoDrain
  /\ UNCHANGED <<now, rate_limits, total_wait, sleptSinceDrain>>

\* line 76: self._wait_for_rate_limit(url)
BeforeSend ==
  /\ pc = "before"
  /\ LET d == ThrottleSleep(rate_limits, url, now)
         e == Endpoint(url)
         tracked == e \in DOMAIN rate_limits IN
     /\ total_wait' = total_wait + d
     /\ now' = now + d
     /\ sleptSinceDrain' = sleptSinceDrain + d
     /\ sleeps' = IF d > 0
                  THEN Append(sleeps, [kind |-> "throttle", dur |-> d,
                                       attempt |-> attempt])
                  ELSE sleeps
     /\ bs' = [url |-> url, at |-> now, slept |-> d, tracked |-> tracked,
               remaining |-> IF tracked THEN rate_limits[e].remaining ELSE 0,
               reset |-> IF tracked THEN rate_limits[e].reset ELSE 0]
  /\ pc' = "send"
  /\ lastOp' = "beforeSend"
  /\ drainsInRow' = 0
  /\ UNCHANGED <<rate_limits, attempt, url, result, lastDrain, prevDrain,
                 nreq, outcomes, rx>>

\* variant: a retry goes straight back to the transport call
TransportSkipsCheckOnRetry(o, lat) ==
  /\ pc = "send"
  /\ LET t == now + lat
         rl == IF o.kind = "http"
               THEN UpdateRateLimit(rate_limits, url, o.remaining, o.reset)
               ELSE rate_limits
         retry == ShouldRetry(o, attempt)
         d == IF retry THEN RetrySleep(IntOf(o.reset, DefaultReset), t) ELSE 0
     IN
     /\ outcomes' = Append(outcomes, o)
     /\ rate_limits' = rl
     /\ rx' = [at |-> t, tw |-> total_wait, slept |-> d, attempt |-> attempt,
               rl |-> rate_limits]
     /\ total_wait' = total_wait + d
     /\ sleptSinceDrain' = sleptSinceDrain + d
     /\ now' = t + d
     /\ sleeps' = IF retry
                  THEN Append(sleeps, [kind |-> "retry", dur |-> d,
                                       attempt |-> attempt])
                  ELSE sleeps
     /\ IF retry
        THEN /\ attempt' = attempt + 1
             /\ pc' = "send"
             /\ result' = result
        ELSE /\ attempt' = attempt
             /\ pc' = "done"
             /\ result' = Classify(o, attempt)
  /\ lastOp' = "transport"
  /\ drainsInRow' = 0
  /\ UNCHANGED <<url, lastDrain, prevDrain, nreq, bs>>

\* lines 78-113: the transport call and everything _request does with its
\* outcome o, which arrives lat ticks after the call
Transport(o, lat) ==
  /\ pc = "send"
  /\ LET t == now + lat
         rl == IF o.kind = "http"
               THEN UpdateRateLimit(rate_limits, url, o.remaining, o.reset)
               ELSE rate_limits
         retry == ShouldRetry(o, attempt)
         d == IF retry THEN RetrySleep(IntOf(o.reset, DefaultReset), t) ELSE 0
     IN
     /\ outcomes' = Append(outcomes, o)
     /\ rate_limits' = rl
     /\ rx' = [at |-> t, tw |-> total_wait, slept |-> d, attempt |-> attempt,
               rl |-> rate_limits]
     /\ total_wait' = total_wait + d
     /\ sleptSinceDrain' = sleptSinceDrain + d
     /\ now' = t + d
     /\ sleeps' = IF retry
                  THEN Append(sleeps, [kind |-> "retry", dur |-> d,
                                       attempt |-> attempt])
                  ELSE sleeps
     /\ IF retry
        THEN /\ attempt' = attempt + 1
             /\ pc' = "before"
             /\ result' = result
        ELSE /\ attempt' = attempt
             /\ pc' = "done"
             /\ result' = Classify(o, attempt)
  /\ lastOp' = "transport"
  /\ drainsInRow' = 0
  /\ UNCHANGED <<url, lastDrain, prevDrain, nreq, bs>>

\* variant: the accumulator is read but not reset
DrainKeepsAccumulator ==
  /\ Quiet
  /\ drainsInRow < MaxDrainsInRow
  /\ lastDrain' = [from |-> sleptSinceDrain, ret |-> Round1(total_wait)]
  /\ prevDrain' = lastDrain
  /\ total_wait' = total_wait
  /\ sleptSinceDrain' = 0
  /\ lastOp' = "drain"
  /\ drainsInRow' = drainsInRow + 1
  /\ UNCHANGED <<now, rate_limits, pc, attempt, url, result, nreq,
                 outcomes, sleeps, bs, rx>>

\* lines 47-49: drain_wait_time
Drain ==
  /\ Quiet
  /\ drainsInRow < MaxDrainsInRow
  /\ lastDrain' = [from |-> sleptSinceDrain, ret |-> Round1(total_wait)]
  /\ prevDrain' = lastDrain
  /\ total_wait' = 0
  /\ sleptSinceDrain' = 0
  /\ lastOp' = "drain"
  /\ drainsInRow' = drainsInRow + 1
  /\ UNCHANGED <<now, rate_limits, pc, attempt, url, result, nreq,
                 outcomes, sleeps, bs, rx>>

\* the clock moves on after a request has ended
Idle(g) ==
  /\ Quiet
  /\ lastOp = "transport"
  /\ now' = now + g
  /\ lastOp' = "idle"
  /\ drainsInRow' = 0
  /\ UNCHANGED <<rate_limits, total_wait, pc, attempt, url, result, lastDrain,
                 prevDrain, nreq, outcomes, sleeps, sleptSinceDrain, bs, rx>>

\* one request on the fresh client
Next ==
  \/ \E u \in URLs : nreq = 0 /\ Call(u) /\ UNCHANGED ext
  \/ BeforeSend /\ UNCHANGED ext
  \/ \E lat \in Latencies : \E o \in Outcomes(now + lat) :
        Transport(o, lat) /\ UNCHANGED ext

Spec == Init /\ [][Next]_vars

\* requests, pauses and drains in any order
SeqNext ==
  \/ \E u \in URLs : Call(u) /\ UNCHANGED ext
  \/ BeforeSend /\ UNCHANGED ext
  \/ \E lat \in Latencies : \E o \in SeqOutcomes(now + lat) :
        Transport(o, lat) /\ UNCHANGED ext
  \/ Drain /\ UNCHANGED ext
  \/ \E g \in IdleGaps : Idle(g) /\ UNCHANGED ext

SeqSpec == Init /\ [][SeqNext]_vars

TypeOK ==
  /\ now \in Nat
  /\ total_wait \in Nat
  /\ pc \in {"idle", "before", "send", "done"}
  /\ attempt \in 0..(MAX_RETRIES - 1)
  /\ DOMAIN rate_limits \subseteq Endpoints

\* ------------------------------------------------- observation helpers
HasOutcome == Len(outcomes) > 0
LastOutcome == outcomes[Len(outcomes)]
Is429(o) == o.kind = "http" /\ o.status = 429
SleepsOfKind(k) == { i \in DOMAIN sleeps : sleeps[i].kind = k }

RECURSIVE SumDur(_)
SumDur(s) == IF s = <<>> THEN 0 ELSE Head(s).dur + SumDur(Tail(s))

\* ---------------------------------------------------------------- claims
\* C1: one _request issues at most 3 transport calls, and a further call
\* only after a 429: every outcome but the last is a 429, and after an
\* outcome that is not a 429 the request is over.
C1_AtMostThreeCallsOnlyAfter429 ==
  /\ Len(outcomes) <= 3
  /\ \A i \in 1..(Len(outcomes) - 1) : Is429(outcomes[i])
  /\ (HasOutcome /\ ~Is429(LastOutcome)) => pc = "done"
  /\ pc = "done" => lastOp = "transport"

\* three transport calls were made and the last one was not a 429
C1_Witness ==
  /\ Len(outcomes) = 3
  /\ ~Is429(LastOutcome)
  /\ pc = "done"

\* C2: after three consecutive 429s the request has failed with the
\* rate-limited error after exactly 3 transport calls and exactly two retry
\* sleeps; the third 429 is followed by no sleep and adds nothing to the
\* wait accumulator.
C2_ThreeConsecutive429Fail ==
  (Len(outcomes) >= 3 /\ \A i \in 1..3 : Is429(outcomes[i])) =>
     /\ Len(outcomes) = 3
     /\ pc = "done"
     /\ result.kind = "rate_limited"
     /\ Cardinality(SleepsOfKind("retry")) = 2
     /\ rx.slept = 0
     /\ now = rx.at
     /\ total_wait = rx.tw

\* three 429s in a row, the last with a reset header far in the future
C2_Witness ==
  /\ Len(outcomes) = 3
  /\ \A i \in 1..3 : Is429(outcomes[i])
  /\ LastOutcome.reset.kind = "int"
  /\ Secs(LastOutcome.reset.val) > now
  /\ total_wait > 0

\* C3: a 401 on any attempt ends the request with the authentication
\* error; no transport call and no sleep follows, and the wait accumulator
\* has the value it had when that attempt was sent.
C3_AuthFailsImmediately ==
  (HasOutcome /\ LastOutcome.kind = "http" /\ LastOutcome.status = 401) =>
     /\ pc = "done"
     /\ result.kind = "auth_failed"
     /\ rx.slept = 0
     /\ now = rx.at
     /\ total_wait = rx.tw

\* a 401 on the second attempt, after a 429 was slept for
C3_Witness ==
  /\ Len(outcomes) = 2
  /\ LastOutcome.kind = "http" /\ LastOutcome.status = 401
  /\ total_wait > 0

\* C4: a status other than 2xx, 401 and 429 ends the request with the API
\* error carrying that status and body, a connect failure with the
\* cannot-connect error, a timeout with the timed-out error; on whichever
\* attempt, none is followed by a sleep or another attempt.
C4_TerminalFailures ==
  HasOutcome =>
    LET o == LastOutcome IN
    /\ (o.kind = "http" /\ ~IsSuccess(o.status) /\ o.status \notin {401, 429}) =>
          /\ pc = "done"
          /\ result = Res("api_error", o.status, o.body)
          /\ rx.slept = 0 /\ now = rx.at /\ total_wait = rx.tw
          /\ attempt = rx.attempt
    /\ o.kind = "connect" =>
          /\ pc = "done"
          /\ result.kind = "cannot_connect"
          /\ rx.slept = 0 /\ now = rx.at /\ total_wait = rx.tw
          /\ attempt = rx.attempt
    /\ o.kind = "timeout" =>
          /\ pc = "done"
          /\ result.kind = "timed_out"
          /\ rx.slept = 0 /\ now = rx.at /\ total_wait = rx.tw
          /\ attempt = rx.attempt

\* a timeout on the third attempt
C4_Witness ==
  /\ Len(outcomes) = 3
  /\ LastOutcome.kind = "timeout"
  /\ result.kind = "timed_out"

\* C5: on a 429 with attempts remaining the executor sleeps exactly
\* min(max(resetAt - now, 1) + 0.5, 60) seconds, resetAt being the
\* x-ratelimit-reset header (0 when absent), adds exactly that to the wait
\* accumulator and goes on to the next attempt; the sleep is between 1.5s
\* and 60s.
C5_RetrySleepFormula ==
  (lastOp = "transport" /\ Is429(LastOutcome) /\ rx.attempt < MAX_RETRIES - 1) =>
    LET resetAt == IF LastOutcome.reset.kind = "int"
                   THEN LastOutcome.reset.val ELSE 0
        wait == Max(Secs(resetAt) - rx.at, Secs(1))
        sleepFor == Min(wait + HalfSecond, Secs(60))
    IN
    /\ pc = "before"
    /\ attempt = rx.attempt + 1
    /\ rx.slept = sleepFor
    /\ now = rx.at + sleepFor
    /\ total_wait = rx.tw + sleepFor
    /\ rx.slept >= Secs(1) + HalfSecond
    /\ rx.slept <= Secs(60)

\* C5, the part the code keeps: the same, for a reset header that is
\* absent or an integer literal
C5_RetrySleepFormulaParsed ==
  (lastOp = "transport" /\ Is429(LastOutcome) /\ rx.attempt < MAX_RETRIES - 1
     /\ LastOutcome.reset.kind # "junk") =>
    LET resetAt == IF LastOutcome.reset.kind = "int"
                   THEN LastOutcome.reset.val ELSE 0
        wait == Max(Secs(resetAt) - rx.at, Secs(1))
        sleepFor == Min(wait + HalfSecond, Secs(60))
    IN
    /\ pc = "before"
    /\ attempt = rx.attempt + 1
    /\ rx.slept = sleepFor
    /\ now = rx.at + sleepFor
    /\ total_wait = rx.tw + sleepFor
    /\ rx.slept >= Secs(1) + HalfSecond
    /\ rx.slept <= Secs(60)
    /\ (Secs(resetAt) >= rx.at + Secs(5)) => rx.slept >= Secs(5)

\* C8: an x-ratelimit header int() rejects leaves the rate-limit map as it
\* was and makes no failure reach the caller of _request, on a 2xx, a 429
\* or any other status.
C8_UnparseableHeaderSwallowed ==
  (lastOp = "transport" /\ LastOutcome.kind = "http"
     /\ (LastOutcome.remaining.kind = "junk" \/ LastOutcome.reset.kind = "junk")) =>
    /\ rate_limits = rx.rl
    /\ result.kind # "value_error"

\* C8, the part the code keeps: the map is never changed by such headers,
\* and the only failure they cause is on a 429 that would be retried
C8_UnparseableHeaderMapUnchanged ==
  (lastOp = "transport" /\ LastOutcome.kind = "http"
     /\ (LastOutcome.remaining.kind = "junk" \/ LastOutcome.reset.kind = "junk")) =>
    /\ rate_limits = rx.rl
    /\ result.kind = "value_error" =>
         (Is429(LastOutcome) /\ rx.attempt < MAX_RETRIES - 1
            /\ LastOutcome.reset.kind = "junk")

\* the up-front throttle wait of the running request
RECURSIVE UpFront(_)
UpFront(s) ==
  IF s = <<>> THEN 0
  ELSE (IF Head(s).kind = "throttle" /\ Head(s).attempt = 0
        THEN Head(s).dur ELSE 0) + UpFront(Tail(s))

Abs(x) == IF x < 0 THEN -x ELSE x

\* C6 as stated: with {remaining: 0, reset: T} tracked, a beforeSend
\* called before T returns within 0.5s of T, for every T, and one called
\* after T does not sleep.
C6_BlocksUntilReset ==
  (bs.tracked /\ bs.remaining = 0) =>
    /\ bs.at < Secs(bs.reset) =>
         Abs(bs.at + bs.slept - Secs(bs.reset)) <= HalfSecond
    /\ bs.at > Secs(bs.reset) => bs.slept = 0

\* C6 amended: with {remaining: 0, reset: T} tracked, a beforeSend called
\* before T returns at T + 0.5s when that is at most 60s away and after
\* exactly 60s otherwise; one called at or after T does not sleep.
C6_BlocksUntilResetCapped ==
  (bs.tracked /\ bs.remaining = 0) =>
    /\ (bs.at < Secs(bs.reset) /\ Secs(bs.reset) - bs.at + HalfSecond <= Secs(60)) =>
         /\ bs.at + bs.slept = Secs(bs.reset) + HalfSecond
         /\ Abs(bs.at + bs.slept - Secs(bs.reset)) <= HalfSecond
    /\ (bs.at < Secs(bs.reset) /\ Secs(bs.reset) - bs.at + HalfSecond > Secs(60)) =>
         bs.slept = Secs(60)
    /\ bs.at >= Secs(bs.reset) => bs.slept = 0

\* a beforeSend that found remaining 0 and slept until the reset time
C6_Witness ==
  /\ bs.tracked /\ bs.remaining = 0
  /\ bs.at < Secs(bs.reset)
  /\ bs.slept > 0 /\ bs.slept < Secs(60)

\* C7 as stated: the sleeps of one request sum to at most 3 x 60s plus the
\* up-front throttle wait, which is at most 60s.
C7_TotalSleepBound ==
  /\ UpFront(sleeps) <= Secs(60)
  /\ SumDur(sleeps) <= 3 * Secs(60) + UpFront(sleeps)

\* C7 amended: the sleeps of one request sum to at most 4 x 60s (two retry
\* waits and the throttle waits of the two later attempts) plus the
\* up-front throttle wait, which is at most 60s.
C7_TotalSleepBoundFour ==
  /\ UpFront(sleeps) <= Secs(60)
  /\ SumDur(sleeps) <= 4 * Secs(60) + UpFront(sleeps)

\* a finished request that waited up front and slept more than 3 x 60s
\* after that
C7_Witness ==
  /\ pc = "done"
  /\ UpFront(sleeps) > 0
  /\ SumDur(sleeps) > 3 * Secs(60) + UpFront(sleeps)

\* C9: after an HTTP response whose rate-limit headers parse, the entry of
\* the request's endpoint is {remaining: header or 1, reset: header or 0}
\* and every other entry is as before; a connect failure or timeout leaves
\* the map as it was.
C9_ResponseRecorded ==
  lastOp = "transport" =>
    LET o == LastOutcome
        K == Endpoint(url)
    IN
    /\ (o.kind = "http" /\ o.remaining.kind # "junk" /\ o.reset.kind # "junk") =>
         /\ DOMAIN rate_limits = DOMAIN rx.rl \cup {K}
         /\ rate_limits[K].remaining =
              (IF o.remaining.kind = "absent" THEN 1 ELSE o.remaining.val)
         /\ rate_limits[K].reset =
              (IF o.reset.kind = "absent" THEN 0 ELSE o.reset.val)
         /\ \A k \in DOMAIN rx.rl \ {K} : rate_limits[k] = rx.rl[k]
    /\ o.kind \in {"connect", "timeout"} => rate_limits = rx.rl

\* an error response recorded for one endpoint while another endpoint has
\* an exhausted quota tracked
C9_Witness ==
  /\ lastOp = "transport"
  /\ LastOutcome.kind = "http" /\ LastOutcome.status = 500
  /\ Cardinality(DOMAIN rate_limits) = 2
  /\ \E k \in DOMAIN rate_limits : k # Endpoint(url) /\ rate_limits[k].remaining = 0
  /\ Endpoint(url) \in DOMAIN rx.rl
  /\ rate_limits[Endpoint(url)] # rx.rl[Endpoint(url)]

\* C10: the wait accumulator equals the time slept on this client since
\* the last drain; a drain returns that sum to the nearest tenth of a
\* second and leaves the accumulator at 0, so a drain right after a drain
\* returns 0.
C10_AccumulatorIsSumOfSleeps ==
  /\ total_wait = sleptSinceDrain
  /\ \A dr \in {lastDrain, prevDrain} :
       2 * Abs(10 * dr.from - TicksPerSecond * dr.ret) <= TicksPerSecond
  /\ lastOp = "drain" => total_wait = 0
  /\ drainsInRow >= 2 => lastDrain.ret = 0

\* a drain that returned a rounded, non-zero sum, followed at once by a
\* second drain
C10_Witness ==
  /\ drainsInRow = 2
  /\ prevDrain.ret > 0
  /\ 10 * prevDrain.from # TicksPerSecond * prevDrain.ret
  /\ lastDrain.ret = 0

\* ------------------------------------------------ threads on one client
\* Several tool invocations share the module-level client (app.py:12).
\* Neither "self._total_wait += sleep_for" nor the tuple assignment of
\* drain_wait_time holds a lock: each reads the attribute and writes it back
\* in separate steps, and another thread may run in between.

\* sleep durations a thread records, in ticks
SleepAmounts == { Secs(1) + HalfSecond, MaxSleep }

\* operations one thread performs
MaxThreadOps == 2

\* the clientside state ConcSpec leaves alone
clientRest == <<now, rate_limits, pc, attempt, url, result, lastDrain,
                prevDrain, drainsInRow, lastOp, nreq, outcomes, sleeps,
                sleptSinceDrain, bs, rx>>

\* lines 61, 99: "self._total_wait += sleep_for" reads the attribute
AddLoad(t, d) ==
  /\ thr[t].pc = "ready"
  /\ thr[t].ops < MaxThreadOps
  /\ thr' = [thr EXCEPT ![t] = [pc |-> "add", reg |-> total_wait, d |-> d,
                                ops |-> @.ops]]
  /\ UNCHANGED <<total_wait, recorded, returned, clientRest>>

\* lines 61, 99: ... and writes the sum back
AddStore(t) ==
  /\ thr[t].pc = "add"
  /\ total_wait' = thr[t].reg + thr[t].d
  /\ recorded' = recorded + thr[t].d
  /\ thr' = [thr EXCEPT ![t] = [pc |-> "ready", reg |-> 0, d |-> 0,
                                ops |-> @.ops + 1]]
  /\ UNCHANGED <<returned, clientRest>>

\* line 48: the right-hand side (self._total_wait, 0) is evaluated
DrainLoad(t) ==
  /\ thr[t].pc = "ready"
  /\ thr[t].ops < MaxThreadOps
  /\ thr' = [thr EXCEPT ![t] = [pc |-> "drain", reg |-> total_wait, d |-> 0,
                                ops |-> @.ops]]
  /\ UNCHANGED <<total_wait, recorded, returned, clientRest>>

\* lines 48-49: elapsed and self._total_wait are assigned, elapsed returned
DrainStore(t) ==
  /\ thr[t].pc = "drain"
  /\ total_wait' = 0
  /\ returned' = returned + thr[t].reg
  /\ thr' = [thr EXCEPT ![t] = [pc |-> "ready", reg |-> 0, d |-> 0,
                                ops |-> @.ops + 1]]
  /\ UNCHANGED <<recorded, clientRest>>

notConc == <<page, calc, canc>>

ConcNext ==
  \/ \E t \in Threads : \E d \in SleepAmounts :
        AddLoad(t, d) /\ UNCHANGED notConc
  \/ \E t \in Threads : AddStore(t) /\ UNCHANGED notConc
  \/ \E t \in Threads : DrainLoad(t) /\ UNCHANGED notConc
  \/ \E t \in Threads : DrainStore(t) /\ UNCHANGED notConc

ConcSpec == Init /\ [][ConcNext]_vars

AllThreadsReady == \A t \in Threads : thr[t].pc = "ready"

\* C11: with several threads on the one client no wait is lost or counted
\* twice: whenever no thread is inside an accumulator operation, the values
\* the drains returned (before rounding) plus the accumulator equal the sum
\* of the sleep durations recorded.
C11_NoWaitLostOrDoubled ==
  AllThreadsReady => returned + total_wait = recorded

\* ------------------------------------------------------------ _paginate
\* The server is a map from a path to the page it answers with: the page's
\* items and its nextPagePath (None when the page carries none).
None == "None"
StartPath == "p1"
Paths == { "p1", "p2", "p3" }
Servers ==
  [Paths -> [items : { <<>>, <<"a">>, <<"a", "b">> }, next : Paths \union {None}]]

\* the caller's params argument; "params = params or {}" (line 116)
CallerParams == { None, "{}", "{limit}" }
OrEmpty(p) == IF p = None THEN "{}" ELSE p

\* page requests one call may send
MaxPageFetches == 4

PageInit ==
  /\ ClientInit
  /\ ConcInit
  /\ CancIdle
  /\ CalcIdle
  /\ server \in Servers
  /\ pg = NoPg

\* lines 116-117: the locals before the loop
PaginateCall(p) ==
  /\ pg.pc = "idle"
  /\ pg' = [pc |-> "loop", arg |-> p, url |-> StartPath, params |-> OrEmpty(p),
            all_items |-> <<>>, log |-> <<>>]
  /\ UNCHANGED server

\* lines 120-126: what one answered page does to the locals
PaginateStepPrepends(st, data) ==
  IF data.next = None
    THEN [st EXCEPT !.pc = "done", !.all_items = data.items \o @]
    ELSE [st EXCEPT !.all_items = data.items \o @, !.url = data.next,
                    !.params = "{}"]

PaginateStepNeverBreaks(st, data) ==
  IF data.next = None
    THEN [st EXCEPT !.all_items = @ \o data.items, !.params = "{}"]
    ELSE [st EXCEPT !.all_items = @ \o data.items, !.url = data.next,
                    !.params = "{}"]

PaginateStep(st, data) ==
  IF data.next = None
    THEN [st EXCEPT !.pc = "done", !.all_items = @ \o data.items]
    ELSE [st EXCEPT !.all_items = @ \o data.items, !.url = data.next,
                    !.params = "{}"]

\* line 119 answered, then lines 120-126
PageFetch ==
  /\ pg.pc = "loop"
  /\ Len(pg.log) < MaxPageFetches
  /\ pg' = PaginateStep([pg EXCEPT !.log = Append(@, <<pg.url, pg.params>>)],
                        server[pg.url])
  /\ UNCHANGED server

\* line 119 raising: _paginate has no handler, the error leaves it
PageRaise ==
  /\ pg.pc = "loop"
  /\ Len(pg.log) < MaxPageFetches
  /\ pg' = [pg EXCEPT !.pc = "raised", !.log = Append(@, <<pg.url, pg.params>>)]
  /\ UNCHANGED server

notPage == <<client, conc, calc, canc>>

PageNext ==
  \/ \E p \in CallerParams : PaginateCall(p) /\ UNCHANGED notPage
  \/ PageFetch /\ UNCHANGED notPage
  \/ PageRaise /\ UNCHANGED notPage

PageSpec == PageInit /\ [][PageNext]_vars

\* the loop is straight-line code: an answered request is acted upon
PageFairSpec == PageSpec /\ WF_vars(PageFetch /\ UNCHANGED notPage)

\* the pages the server links from u, following at most k links
RECURSIVE Walk(_, _)
Walk(u, k) ==
  IF k = 0 THEN <<>>
  ELSE <<u>> \o (IF server[u].next = None THEN <<>>
                 ELSE Walk(server[u].next, k - 1))

NPaths == Cardinality(Paths)
Chain == Walk(StartPath, NPaths + 1)
ChainFinite == Len(Chain) <= NPaths

RECURSIVE ItemsAlong(_)
ItemsAlong(c) ==
  IF c = <<>> THEN <<>> ELSE server[Head(c)].items \o ItemsAlong(Tail(c))

\* C12: on a finite chain p1..pn _paginate sends exactly n requests, the
\* first to the starting path with the caller's parameters and each later
\* one to the previous page's nextPagePath with empty parameters, and
\* returns the pages' items in page order and within-page order.
C12_PaginateFollowsChain ==
  pg.pc = "done" =>
    /\ ChainFinite
    /\ Len(pg.log) = Len(Chain)
    /\ \A i \in DOMAIN pg.log :
         pg.log[i] = <<Chain[i], IF i = 1 THEN OrEmpty(pg.arg) ELSE "{}">>
    /\ pg.all_items = ItemsAlong(Chain)

\* three pages were fetched with a limit given, as in [a,b] then [a]
C12_Witness ==
  /\ pg.pc = "done"
  /\ Len(pg.log) = 3
  /\ pg.arg = "{limit}"
  /\ pg.all_items = <<"a", "b", "a">>

\* C13 as stated: the fetches are bounded by the pages the server has,
\* whatever chain it reports.
C13_FetchesBoundedByPages ==
  pg.pc # "idle" => Len(pg.log) <= NPaths

\* C13, for chains that end: the loop sends no more requests than the chain
\* has pages, and the call returns or raises.
C13_TerminatesOnFiniteChain ==
  /\ [](pg.pc # "idle" /\ ChainFinite => Len(pg.log) <= Len(Chain))
  /\ (pg.pc = "loop" /\ ChainFinite) ~> (pg.pc \in {"done", "raised"})

\* a chain of two pages or more was followed to its end
C13_Witness ==
  /\ pg.pc = "done"
  /\ ChainFinite
  /\ Len(pg.log) >= 2
  /\ Len(pg.log) = Len(Chain)

\* ------------------------------------- fetch_dividend_summary: the sums
\* Money is counted in cents. Amounts are even numbers of cents and the
\* dates lie in three months, so that no average falls on half a cent,
\* where round(x, 2) depends on the binary representation.
MaxDividends == 3

\* a datetime: year, month, day and hour; NoDT is a datetime field left None
NoDT == [y |-> 0, m |-> 0, d |-> 0, h |-> 0]
DT(y, m, d, h) == [y |-> y, m |-> m, d |-> d, h |-> h]
Dates == { DT(2023, 12, 31, 0), DT(2024, 1, 15, 0), DT(2024, 2, 10, 0) }
Dividends ==
  [ticker : { "AAPL", "MSFT", "" }, amount : { 1000, 500 },
   paid_on : Dates \union {NoDT}]

\* sequences over S of length at most n
SeqsUpTo(S, n) == UNION { [1..k -> S] : k \in 0..n }

\* round(a / n, 2) of an amount in cents: the nearest cent
RoundDiv(a, n) == (2 * a + n) \div (2 * n)

\* d.ticker or "unknown"
TickerKey(t) == IF t = "" THEN "unknown" ELSE t

\* d.paid_on.strftime("%Y-%m"), as the number yyyymm
MonthKey(p) == p.y * 100 + p.m

\* a dict is the sequence of its <<key, value>> pairs in insertion order
HasKey(dict, k) == \E i \in DOMAIN dict : dict[i][1] = k
Get(dict, k, dflt) ==
  IF HasKey(dict, k)
    THEN dict[CHOOSE i \in DOMAIN dict : dict[i][1] = k][2]
    ELSE dflt
Put(dict, k, v) ==
  IF HasKey(dict, k)
    THEN [i \in DOMAIN dict |-> IF dict[i][1] = k THEN <<k, v>> ELSE dict[i]]
    ELSE Append(dict, <<k, v>>)

\* lines 160-163
RECURSIVE ByTicker(_, _)
ByTicker(divs, acc) ==
  IF divs = <<>> THEN acc
  ELSE LET t == TickerKey(Head(divs).ticker)
       IN ByTicker(Tail(divs), Put(acc, t, Get(acc, t, 0) + Head(divs).amount))

\* lines 171-175
RECURSIVE ByMonth(_, _)
ByMonth(divs, acc) ==
  IF divs = <<>> THEN acc
  ELSE LET p == Head(divs).paid_on
           k == MonthKey(p)
       IN ByMonth(Tail(divs),
                  IF p = NoDT THEN acc
                  ELSE Put(acc, k, Get(acc, k, 0) + Head(divs).amount))

\* sorted(): a stable sort, here by insertion, of <<rank, item>> pairs by
\* ascending rank
RECURSIVE InsertByRank(_, _)
InsertByRank(x, s) ==
  IF s = <<>> THEN <<x>>
  ELSE IF x[1] < Head(s)[1] THEN <<x>> \o s
  ELSE <<Head(s)>> \o InsertByRank(x, Tail(s))

RECURSIVE SortedByRank(_)
SortedByRank(s) ==
  IF s = <<>> THEN <<>>
  ELSE InsertByRank(s[Len(s)], SortedByRank(SubSeq(s, 1, Len(s) - 1)))

\* the items of a sequence of <<rank, item>> pairs
Unranked(r) == [i \in DOMAIN r |-> r[i][2]]

\* key=lambda x: x[1], reverse=True: on a dict item, highest value first
ValueAscending(item) == item[2]
ValueDescending(item) == 0 - item[2]
\* sorted(by_month.items()): by key
KeyAscending(item) == item[1]

RECURSIVE Sum(_)
Sum(s) == IF s = <<>> THEN 0 ELSE Head(s) + Sum(Tail(s))

AmountsOf(divs) == [i \in DOMAIN divs |-> divs[i].amount]

\* lines 159-192
DividendSummary(all_divs) ==
  LET by_ticker == ByTicker(all_divs, <<>>)
      by_month == ByMonth(all_divs, <<>>)
      total == Sum(AmountsOf(all_divs))
      months_span == IF Len(by_month) = 0 THEN 1 ELSE Len(by_month)
  IN [total_dividends |-> total,
      dividend_count |-> Len(all_divs),
      average_monthly |-> RoundDiv(total, months_span),
      by_ticker |->
        Unranked(SortedByRank([i \in DOMAIN by_ticker |->
                                 <<ValueDescending(by_ticker[i]), by_ticker[i]>>])),
      by_month |->
        Unranked(SortedByRank([i \in DOMAIN by_month |->
                                 <<KeyAscending(by_month[i]), by_month[i]>>]))]

DivSumInit ==
  /\ ClientInit
  /\ ConcInit
  /\ CancIdle
  /\ PageIdle
  /\ inp \in SeqsUpTo(Dividends, MaxDividends)
  /\ out = NoValue

Summarise ==
  /\ out = NoValue
  /\ out' = DividendSummary(inp)
  /\ UNCHANGED inp

notCalc == <<client, conc, page, canc>>

DivSumNext == Summarise /\ UNCHANGED notCalc

DivSumSpec == DivSumInit /\ [][DivSumNext]_vars

\* the sum of the amounts of the dividends of inp that satisfy P
SumWhere(P(_)) ==
  Sum(AmountsOf(SelectSeq(inp, P)))

DatedMonths == { MonthKey(inp[i].paid_on) :
                   i \in { j \in DOMAIN inp : inp[j].paid_on # NoDT } }

\* C15: by_ticker has one entry per ticker (an empty ticker is listed as
\* "unknown") with the sum of its amounts, highest total first; by_month has
\* one entry per month of paid_on with that month's sum, in chronological
\* order; total_dividends is the sum of all amounts; average_monthly is
\* total_dividends / max(1, number of distinct months), to the cent.
C15_DividendSummary ==
  out # NoValue =>
    LET bt == out.by_ticker
        bm == out.by_month
    IN /\ { bt[i][1] : i \in DOMAIN bt } =
            { TickerKey(inp[i].ticker) : i \in DOMAIN inp }
       /\ \A i, j \in DOMAIN bt : i < j =>
            bt[i][1] # bt[j][1] /\ bt[i][2] >= bt[j][2]
       /\ \A i \in DOMAIN bt :
            LET Of(d) == TickerKey(d.ticker) = bt[i][1]
            IN bt[i][2] = SumWhere(Of)
       /\ { bm[i][1] : i \in DOMAIN bm } = DatedMonths
       /\ \A i, j \in DOMAIN bm : i < j => bm[i][1] < bm[j][1]
       /\ \A i \in DOMAIN bm :
            LET In(d) == d.paid_on # NoDT /\ MonthKey(d.paid_on) = bm[i][1]
            IN bm[i][2] = SumWhere(In)
       /\ out.total_dividends = Sum(AmountsOf(inp))
       /\ out.dividend_count = Len(inp)
       /\ out.average_monthly =
            RoundDiv(out.total_dividends,
                     Max(1, Cardinality(DatedMonths)))

\* AAPL 10 paid 2024-01-15 and AAPL 5 paid 2024-02-10
C15_Witness ==
  /\ inp = << [ticker |-> "AAPL", amount |-> 1000, paid_on |-> DT(2024, 1, 15, 0)],
              [ticker |-> "AAPL", amount |-> 500, paid_on |-> DT(2024, 2, 10, 0)] >>
  /\ out # NoValue
  /\ out.by_ticker = << <<"AAPL", 1500>> >>
  /\ out.by_month = << <<202401, 1000>>, <<202402, 500>> >>
  /\ out.average_monthly = 750

\* ------------------------------------ fetch_dividend_summary: the paging
\* A nextPagePath is a sequence of tokens; <<>> is a path that is None or
\* empty. The server answers a request by its cursor parameter.
DividendPages == 4
SummaryLimit == 50
MaxLimit == 50
MinLimit == 1

NoPath == <<>>
PathCursor2 == <<"/d?", "cursor=", "2", "&", "limit=50">>
PathCursor3 == <<"/d?", "limit=50", "&", "cursor=", "3">>
PathNoCursor == <<"/d?", "limit=50">>
PathBadCursor == <<"/d?", "cursor=", "x", "&", "limit=50">>
PathEmptyCursor == <<"/d?", "cursor=", "&", "limit=50">>
NextPaths == { NoPath, PathCursor2, PathCursor3, PathNoCursor, PathBadCursor,
               PathEmptyCursor }

\* the cursor argument of fetch_dividends
NoCur == [given |-> FALSE, val |-> 0]
Cur(n) == [given |-> TRUE, val |-> n]
CursorArgs == { NoCur, Cur(2), Cur(3) }

DividendServers ==
  [CursorArgs ->
     [items : { <<>>,
                << [ticker |-> "AAPL", amount |-> 1000, paid_on |-> DT(2024, 1, 15, 0)] >>,
                << [ticker |-> "AAPL", amount |-> 1000, paid_on |-> DT(2024, 1, 15, 0)],
                   [ticker |-> "AAPL", amount |-> 500, paid_on |-> DT(2024, 2, 10, 0)] >> },
      next_page_path : NextPaths]]

\* position of the first tok in s, 0 when there is none
IndexOf(s, tok) ==
  IF \E i \in DOMAIN s : s[i] = tok
    THEN CHOOSE i \in DOMAIN s : s[i] = tok /\ \A j \in 1..(i - 1) : s[j] # tok
    ELSE 0

\* s.split(tok)[0]
SplitHead(s, tok) ==
  IF IndexOf(s, tok) = 0 THEN s ELSE SubSeq(s, 1, IndexOf(s, tok) - 1)

\* s.split(tok)[1]; an IndexError when tok is not in s
SplitSecond(s, tok) ==
  SplitHead(SubSeq(s, IndexOf(s, tok) + 1, Len(s)), tok)

\* int(text); a ValueError when text is no integer literal
DigitValue(tok) == IF tok = "2" THEN 2 ELSE 3
IntParses(text) ==
  Len(text) >= 1 /\ \A i \in DOMAIN text : text[i] \in { "2", "3" }
RECURSIVE IntValue(_)
IntValue(text) ==
  IF Len(text) = 1 THEN DigitValue(text[1])
  ELSE 10 * IntValue(SubSeq(text, 1, Len(text) - 1)) + DigitValue(text[Len(text)])

\* line 155
CursorText(path) == SplitHead(SplitSecond(path, "cursor="), "&")
CursorParses(path) ==
  IndexOf(path, "cursor=") > 0 /\ IntParses(CursorText(path))

\* client.py:160-161
ClampLimit(limit) == Min(MaxLimit, Max(MinLimit, limit))

DivPageInit ==
  /\ ClientInit
  /\ ConcInit
  /\ CancIdle
  /\ CalcIdle
  /\ server \in DividendServers
  /\ pg = NoPg

\* lines 143-147
DivCall ==
  /\ pg.pc = "idle"
  /\ pg' = [pc |-> "loop", cursor |-> NoCur, all_divs |-> <<>>, log |-> <<>>,
            summary |-> NoValue]
  /\ UNCHANGED server

\* lines 159-192, reached from the loop
Finish(st) ==
  [st EXCEPT !.pc = "done", !.summary = DividendSummary(st.all_divs)]

\* lines 149-157: what one answered page does; st.log already holds the request
AfterPageRaises(st, data) ==
  LET got == [st EXCEPT !.all_divs = @ \o data.items]
  IN IF data.next_page_path = NoPath THEN Finish(got)
     ELSE IF ~CursorParses(data.next_page_path) THEN [got EXCEPT !.pc = "raised"]
     ELSE IF Len(st.log) = DividendPages THEN Finish(got)
     ELSE [got EXCEPT !.cursor = Cur(IntValue(CursorText(data.next_page_path)))]

AfterPage(st, data) ==
  LET got == [st EXCEPT !.all_divs = @ \o data.items]
  IN IF data.next_page_path = NoPath THEN Finish(got)
     ELSE IF ~CursorParses(data.next_page_path) THEN Finish(got)
     ELSE IF Len(st.log) = DividendPages THEN Finish(got)
     ELSE [got EXCEPT !.cursor = Cur(IntValue(CursorText(data.next_page_path)))]

\* line 148 answered, then lines 149-157 (and 159-192 when the loop ends)
DivFetch ==
  /\ pg.pc = "loop"
  /\ pg' = AfterPage([pg EXCEPT !.log = Append(@, [cursor |-> pg.cursor,
                                                   limit |-> ClampLimit(SummaryLimit)])],
                     server[pg.cursor])
  /\ UNCHANGED server

\* line 148 raising: the tool has no handler for a failed request
DivRaise ==
  /\ pg.pc = "loop"
  /\ pg' = [pg EXCEPT !.pc = "failed",
                      !.log = Append(@, [cursor |-> pg.cursor,
                                         limit |-> ClampLimit(SummaryLimit)])]
  /\ UNCHANGED server

DivPageNext ==
  \/ DivCall /\ UNCHANGED notPage
  \/ DivFetch /\ UNCHANGED notPage
  \/ DivRaise /\ UNCHANGED notPage

DivPageSpec == DivPageInit /\ [][DivPageNext]_vars

\* the integer a nextPagePath carries as its cursor= value, 0 when none
CursorCarried(path) ==
  IF path = PathCursor2 THEN 2 ELSE IF path = PathCursor3 THEN 3 ELSE 0

\* the page that answered the i-th request
Answer(i) == server[pg.log[i].cursor]

RECURSIVE Collected(_)
Collected(n) == IF n = 0 THEN <<>> ELSE Collected(n - 1) \o Answer(n).items

\* C14: at most 4 page requests, each with limit 50 and each after the first
\* with the cursor of the preceding page's nextPagePath; fetching stops as
\* soon as a page has no nextPagePath or one without an integer cursor, and
\* the summary of the pages collected is returned, not an error.
C14_DividendPaging ==
  pg.pc # "idle" =>
    /\ Len(pg.log) <= 4
    /\ \A i \in DOMAIN pg.log :
         /\ pg.log[i].limit = 50
         /\ i = 1 => pg.log[i].cursor = NoCur
         /\ i > 1 => /\ CursorCarried(Answer(i - 1).next_page_path) # 0
                     /\ pg.log[i].cursor =
                          Cur(CursorCarried(Answer(i - 1).next_page_path))
    /\ pg.pc \in {"loop", "done", "failed"}
    /\ (pg.pc = "loop" /\ Len(pg.log) > 0) =>
         /\ Len(pg.log) < 4
         /\ CursorCarried(Answer(Len(pg.log)).next_page_path) # 0
    /\ pg.pc = "done" =>
         /\ \/ Len(pg.log) = 4
            \/ CursorCarried(Answer(Len(pg.log)).next_page_path) = 0
         /\ pg.summary = DividendSummary(Collected(Len(pg.log)))

\* the second page's nextPagePath has no integer cursor: the two pages
\* are summarised
C14_Witness ==
  /\ pg.pc = "done"
  /\ Len(pg.log) = 2
  /\ Answer(2).next_page_path \in {PathNoCursor, PathBadCursor, PathEmptyCursor}
  /\ pg.summary.dividend_count = 3

\* four pages fetched and a fifth on offer
C14_FourPages ==
  /\ pg.pc = "done"
  /\ Len(pg.log) = 4
  /\ CursorCarried(Answer(4).next_page_path) # 0

\* ------------------------------------------------ fetch_portfolio_summary
\* Prices, quantities and profits are whole numbers here and a percentage
\* is counted in hundredths of a percent, the precision of round(x, 2). A
\* number that is None takes the same branch as 0 wherever these tools use
\* it ("x or 0", "if x"), so it is 0 here. The values are chosen so that no
\* percentage falls on half a hundredth.
MaxPositions == 6
TopCount == 5

Pos(t, q, avg, cur, ppl) ==
  [ticker |-> t, quantity |-> q, average_price |-> avg, current_price |-> cur,
   ppl |-> ppl]
Positions == { Pos("X", 2, 10, 15, 10), Pos("Y", 3, 30, 30, -7),
               Pos("Z", 0, 10, 15, 10), Pos("W", 2, 0, 15, 10),
               Pos("", 2, 30, 30, 10) }
Cashes == { [total |-> 30, free |-> 0, invested |-> 20, ppl |-> 10],
            [total |-> 5, free |-> 5, invested |-> 0, ppl |-> 10],
            [total |-> 40, free |-> 17, invested |-> 30, ppl |-> -7] }

\* round(num / den * 100, 2), in hundredths of a percent
Pct(num, den) == RoundDiv(num * 10000, den)

\* lines 24-35
Holding(pos) ==
  [ticker |-> pos.ticker,
   quantity |-> pos.quantity,
   average_price |-> pos.average_price,
   current_price |-> pos.current_price,
   current_value |-> pos.current_price * pos.quantity,
   profit_loss |-> pos.ppl,
   profit_loss_pct |->
     IF pos.average_price # 0 /\ pos.quantity # 0
       THEN Pct(pos.ppl, pos.average_price * pos.quantity)
       ELSE 0]

\* line 37: key=lambda h: h["current_value"], reverse=True
CurrentValueAscending(h) == h.current_value
CurrentValueDescending(h) == 0 - h.current_value

\* s[:n]
Take(s, n) == SubSeq(s, 1, Min(n, Len(s)))

\* lines 18-53
PortfolioSummary(positions, cash) ==
  LET hs == [i \in DOMAIN positions |-> Holding(positions[i])]
      holdings == Unranked(SortedByRank([i \in DOMAIN hs |->
                                           <<CurrentValueDescending(hs[i]), hs[i]>>]))
  IN [total_value |-> cash.total,
      cash_available |-> cash.free,
      invested |-> cash.invested,
      profit_loss |-> cash.ppl,
      profit_loss_pct |->
        IF cash.invested # 0 THEN Pct(cash.ppl, cash.invested) ELSE 0,
      position_count |-> Len(positions),
      positions |-> holdings,
      top_holdings |-> Take(holdings, TopCount)]

SummaryInit ==
  /\ ClientInit
  /\ ConcInit
  /\ CancIdle
  /\ PageIdle
  /\ inp \in [positions : SeqsUpTo(Positions, MaxPositions), cash : Cashes]
  /\ out = NoValue

FetchPortfolioSummary ==
  /\ out = NoValue
  /\ out' = PortfolioSummary(inp.positions, inp.cash)
  /\ UNCHANGED inp

SummaryNext == FetchPortfolioSummary /\ UNCHANGED notCalc

SummarySpec == SummaryInit /\ [][SummaryNext]_vars

\* how many entries of s satisfy P
Count(s, P(_)) == Cardinality({ i \in DOMAIN s : P(s[i]) })

\* C16: one holding per position with current_value = currentPrice x
\* quantity and profit_loss_pct = ppl / (averagePrice x quantity) x 100
\* (0 when averagePrice or quantity is zero), ordered by current_value
\* descending; top_holdings the first min(5, n) of them; position_count = n;
\* overall profit_loss_pct = cash.ppl / cash.invested x 100 (0 when
\* invested is 0). Percentages are to the hundredth.
C16_PortfolioSummary ==
  out # NoValue =>
    LET ps == inp.positions
        hs == out.positions
        n == Len(ps)
    IN /\ Len(hs) = n
       /\ \A p \in Positions :
            LET IsP(x) == x = p
                IsHoldingOfP(h) ==
                  /\ h.ticker = p.ticker
                  /\ h.current_value = p.current_price * p.quantity
                  /\ p.average_price = 0 \/ p.quantity = 0 => h.profit_loss_pct = 0
                  /\ p.average_price # 0 /\ p.quantity # 0 =>
                       Abs(2 * (h.profit_loss_pct * p.average_price * p.quantity
                                - p.ppl * 10000))
                         <= p.average_price * p.quantity
            IN Count(hs, IsHoldingOfP) = Count(ps, IsP)
       /\ \A i, j \in DOMAIN hs : i < j => hs[i].current_value >= hs[j].current_value
       /\ out.top_holdings = SubSeq(hs, 1, Min(5, n))
       /\ out.position_count = n
       /\ inp.cash.invested = 0 => out.profit_loss_pct = 0
       /\ inp.cash.invested # 0 =>
            Abs(2 * (out.profit_loss_pct * inp.cash.invested - inp.cash.ppl * 10000))
              <= inp.cash.invested

\* six positions, the one of the spec's example among them: five are top
C16_Witness ==
  /\ out # NoValue
  /\ Len(inp.positions) = 6
  /\ Len(out.top_holdings) = 5
  /\ \E i \in DOMAIN out.positions :
       /\ out.positions[i].ticker = "X"
       /\ out.positions[i].current_value = 30
       /\ out.positions[i].profit_loss_pct = 5000
  /\ inp.cash.invested = 20
  /\ out.profit_loss_pct = 5000

\* --------------------------------------------- fetch_portfolio_performance
MaxPerfPositions == 2
MaxPerfDividends == 2
MaxOrders == 22
RecentFilledCap == 20

PerfDividends == { [ticker |-> "X", amount |-> 4], [ticker |-> "Y", amount |-> 2],
                   [ticker |-> "", amount |-> 6] }

\* The history the server answers with: n orders, listed newest first or
\* oldest first, with one of three patterns of status.
DayOf(listing, i, n) == IF listing = "newest first" THEN 100 + (n - i) ELSE 100 + i
StatusOf(pattern, i) ==
  IF pattern = "every third cancelled" /\ i % 3 = 0 THEN "CANCELLED"
  ELSE IF pattern = "first without status" /\ i = 1 THEN None
  ELSE "FILLED"
History(n, listing, pattern) ==
  [i \in 1..n |-> [id |-> i, date_executed |-> DayOf(listing, i, n),
                   status |-> StatusOf(pattern, i)]]
Histories ==
  { History(n, l, p) :
      n \in 0..MaxOrders,
      l \in { "newest first", "oldest first" },
      p \in { "all filled", "every third cancelled", "first without status" } }

\* lines 75-78
RECURSIVE DivByTicker(_, _)
DivByTicker(items, acc) ==
  IF items = <<>> THEN acc
  ELSE LET t == TickerKey(Head(items).ticker)
       IN DivByTicker(Tail(items), Put(acc, t, Get(acc, t, 0) + Head(items).amount))

\* lines 84-101: pos.ticker or "" is the ticker itself
Perf(pos, div_by_ticker) ==
  LET invested == pos.average_price * pos.quantity
      divs == Get(div_by_ticker, pos.ticker, 0)
      total_return == pos.ppl + divs
  IN [ticker |-> pos.ticker,
      quantity |-> pos.quantity,
      invested |-> invested,
      current_value |-> pos.current_price * pos.quantity,
      price_ppl |-> pos.ppl,
      dividends |-> divs,
      total_return |-> total_return,
      return_pct |-> IF invested # 0 THEN Pct(total_return, invested) ELSE 0]

\* line 103
TotalReturnDescending(p) == 0 - p.total_return

\* line 116
IsFilled(o) == o.status # None /\ o.status = "FILLED"

NoPerformer == [none |-> TRUE]

\* lines 69-128
PortfolioPerformance(positions, orders, dividends) ==
  LET div_by_ticker == DivByTicker(dividends, <<>>)
      ps == [i \in DOMAIN positions |-> Perf(positions[i], div_by_ticker)]
      perf == Unranked(SortedByRank([i \in DOMAIN ps |->
                                       <<TotalReturnDescending(ps[i]), ps[i]>>]))
  IN [best_performer |-> IF perf # <<>> THEN perf[1] ELSE NoPerformer,
      worst_performer |-> IF perf # <<>> THEN perf[Len(perf)] ELSE NoPerformer,
      positions |-> perf,
      recent_filled_orders |-> Take(SelectSeq(orders, IsFilled), RecentFilledCap)]

PerfInit ==
  /\ ClientInit
  /\ ConcInit
  /\ CancIdle
  /\ PageIdle
  /\ inp \in [positions : SeqsUpTo(Positions, MaxPerfPositions),
              orders : Histories,
              dividends : SeqsUpTo(PerfDividends, MaxPerfDividends)]
  /\ out = NoValue

FetchPortfolioPerformance ==
  /\ out = NoValue
  /\ out' = PortfolioPerformance(inp.positions, inp.orders, inp.dividends)
  /\ UNCHANGED inp

PerfNext == FetchPortfolioPerformance /\ UNCHANGED notCalc

PerfSpec == PerfInit /\ [][PerfNext]_vars

\* the sum of the fetched dividends whose ticker is t
DividendsOf(t) ==
  LET Of(d) == d.ticker = t
  IN Sum(AmountsOf(SelectSeq(inp.dividends, Of)))

\* the performance entries are those of the positions p for which Applies(p)
\* holds, with total_return = ppl + dividends of the ticker and return_pct =
\* total_return / invested x 100 to the hundredth, 0 when invested is 0
ReturnsRight(Applies(_)) ==
  \A p \in Positions : Applies(p) =>
    LET IsP(x) == x = p
        inv == p.average_price * p.quantity
        IsPerfOfP(e) ==
          /\ e.ticker = p.ticker
          /\ e.total_return = p.ppl + DividendsOf(p.ticker)
          /\ inv = 0 => e.return_pct = 0
          /\ inv # 0 => Abs(2 * (e.return_pct * inv - e.total_return * 10000)) <= inv
    IN Count(out.positions, IsPerfOfP) = Count(inp.positions, IsP)

\* ordered by total_return descending, best first and worst last
RankingRight ==
  LET ps == out.positions
  IN /\ Len(ps) = Len(inp.positions)
     /\ \A i, j \in DOMAIN ps : i < j => ps[i].total_return >= ps[j].total_return
     /\ ps = <<>> => out.best_performer = NoPerformer /\ out.worst_performer = NoPerformer
     /\ ps # <<>> =>
          /\ \E i \in DOMAIN ps : out.best_performer = ps[i]
          /\ \E i \in DOMAIN ps : out.worst_performer = ps[i]
          /\ \A i \in DOMAIN ps :
               /\ out.best_performer.total_return >= ps[i].total_return
               /\ out.worst_performer.total_return <= ps[i].total_return

\* only fetched FILLED orders, each once, up to 20 of them
FilledOnly ==
  LET r == out.recent_filled_orders
      filled == { i \in DOMAIN inp.orders : inp.orders[i].status = "FILLED" }
  IN /\ \A i \in DOMAIN r : \E j \in filled : r[i] = inp.orders[j]
     /\ \A i, j \in DOMAIN r : i # j => r[i] # r[j]
     /\ Len(r) = Min(20, Cardinality(filled))

\* no FILLED order left out was executed after one that is reported
MostRecent ==
  LET r == out.recent_filled_orders
  IN \A j \in DOMAIN inp.orders :
       (inp.orders[j].status = "FILLED" /\ \A i \in DOMAIN r : r[i] # inp.orders[j])
         => \A i \in DOMAIN r : r[i].date_executed >= inp.orders[j].date_executed

AnyPosition(p) == TRUE
HasTicker(p) == p.ticker # ""

\* C17: per position total_return = ppl + dividends of its ticker and
\* return_pct = total_return / invested x 100 (0 when invested is 0);
\* positions by total_return descending; best and worst performer, both
\* null without positions; recent_filled_orders the up to 20 most recent
\* fetched orders with status FILLED and no other.
C17_PortfolioPerformance ==
  out # NoValue =>
    /\ ReturnsRight(AnyPosition)
    /\ RankingRight
    /\ FilledOnly
    /\ MostRecent

\* what does hold: the returns of the positions that have a ticker, the
\* ranking, and that only FILLED orders are reported, at most 20
C17_ReturnsRankingFilledOnly ==
  out # NoValue =>
    /\ ReturnsRight(HasTicker)
    /\ RankingRight
    /\ FilledOnly

\* and when the server lists the newest order first, the most recent ones
C17_MostRecentWhenNewestFirst ==
  (out # NoValue /\ \A i \in DOMAIN inp.orders :
                      inp.orders[i].date_executed = DayOf("newest first", i, Len(inp.orders)))
    => MostRecent

\* -------------------------------------------------- fetch_recent_activity
\* A datetime is a year, month, day and hour; all datetimes of one response
\* carry the same UTC offset. isoformat() writes the fields at fixed width,
\* most significant first, so a string is the tuple of the fields and
\* strings compare as tuples do; "" is the empty tuple.
MaxActivityOrders == 3
MaxActivityTxns == 2

ActivityOrders ==
  [date_executed : {NoDT, DT(2024, 1, 15, 10), DT(2023, 12, 31, 23)},
   date_created : {NoDT, DT(2024, 1, 15, 9)}]
ActivityTxns ==
  [date_time : {NoDT, DT(2024, 1, 15, 10), DT(2024, 1, 15, 9), DT(2024, 2, 1, 0)}]

IsoFormat(dt) == <<dt.y, dt.m, dt.d, dt.h>>

\* a < b on strings
RECURSIVE StrLess(_, _)
StrLess(a, b) ==
  IF b = <<>> THEN FALSE
  ELSE IF a = <<>> THEN TRUE
  ELSE IF Head(a) # Head(b) THEN Head(a) < Head(b)
  ELSE StrLess(Tail(a), Tail(b))

\* lines 220-222; None is the empty tuple too
OrderDateCreatedFirst(o) ==
  IF o.date_created # NoDT THEN IsoFormat(o.date_created)
  ELSE IF o.date_executed # NoDT THEN IsoFormat(o.date_executed)
  ELSE <<>>

OrderDate(o) ==
  IF o.date_executed # NoDT THEN IsoFormat(o.date_executed)
  ELSE IF o.date_created # NoDT THEN IsoFormat(o.date_created)
  ELSE <<>>

\* lines 217-229, 231-238
OrderEntry(o) == [type |-> "order", date |-> OrderDate(o), of |-> o]
TxnEntry(t) ==
  [type |-> "transaction",
   date |-> IF t.date_time # NoDT THEN IsoFormat(t.date_time) ELSE <<>>,
   of |-> t]

\* line 240: a stable sort on a.get("date") or "", reversed
RECURSIVE InsertLatestFirst(_, _)
InsertLatestFirst(x, s) ==
  IF s = <<>> THEN <<x>>
  ELSE IF StrLess(Head(s).date, x.date) THEN <<x>> \o s
  ELSE <<Head(s)>> \o InsertLatestFirst(x, Tail(s))

RECURSIVE SortedLatestFirst(_)
SortedLatestFirst(s) ==
  IF s = <<>> THEN <<>>
  ELSE InsertLatestFirst(s[Len(s)], SortedLatestFirst(SubSeq(s, 1, Len(s) - 1)))

\* lines 211-247
RecentActivity(orders, txns) ==
  [activity |-> SortedLatestFirst([i \in DOMAIN orders |-> OrderEntry(orders[i])]
                                  \o [i \in DOMAIN txns |-> TxnEntry(txns[i])]),
   order_count |-> Len(orders),
   transaction_count |-> Len(txns)]

ActivityInit ==
  /\ ClientInit
  /\ ConcInit
  /\ CancIdle
  /\ PageIdle
  /\ inp \in [orders : SeqsUpTo(ActivityOrders, MaxActivityOrders),
              txns : SeqsUpTo(ActivityTxns, MaxActivityTxns)]
  /\ out = NoValue

FetchRecentActivity ==
  /\ out = NoValue
  /\ out' = RecentActivity(inp.orders, inp.txns)
  /\ UNCHANGED inp

ActivityNext == FetchRecentActivity /\ UNCHANGED notCalc

ActivitySpec == ActivityInit /\ [][ActivityNext]_vars

\* the instant of a datetime, in hours
Instant(dt) == ((dt.y * 12 + dt.m) * 31 + dt.d) * 24 + dt.h

\* the datetime an entry is dated by: an order's executed date when it has
\* one and else its creation date, a transaction's date_time
DatedBy(e) ==
  IF e.type = "transaction" THEN e.of.date_time
  ELSE IF e.of.date_executed # NoDT THEN e.of.date_executed
  ELSE e.of.date_created

PieFields == { "name", "instrument_shares", "dividend_cash_action", "goal",
               "icon", "end_date" }
PieValues(f) ==
  IF f = "name" THEN { None, "A", "" }
  ELSE IF f = "instrument_shares" THEN { None, "{AAPL_US_EQ: 1.0}", "{}" }
  ELSE IF f = "dividend_cash_action" THEN { None, "REINVEST" }
  ELSE IF f = "goal" THEN { None, "100.0", "0.0" }
  ELSE IF f = "icon" THEN { None, "Home" }
  ELSE { None, "2025-12-31T23:59:59Z" }
PieRequests == { r \in [PieFields -> UNION { PieValues(f) : f \in PieFields }] :
                   \A f \in PieFields : r[f] \in PieValues(f) }
PieIds == { "7", "8" }

\* alias_generator=to_camel on the six field names
ToCamel(f) ==
  IF f = "instrument_shares" THEN "instrumentShares"
  ELSE IF f = "dividend_cash_action" THEN "dividendCashAction"
  ELSE IF f = "end_date" THEN "endDate"
  ELSE f

\* pie_data.model_dump(mode="json", by_alias=True): every field, by alias
ModelDump(r) ==
  [k \in { ToCamel(f) : f \in PieFields } |->
     r[CHOOSE f \in PieFields : ToCamel(f) = k]]

\* lines 214-215: {k: v for k, v in ... if v is not None}
Falsy == { None, "", "{}", "0.0" }
DropFalsy(dump) == [k \in { x \in DOMAIN dump : dump[x] \notin Falsy } |-> dump[k]]
DropNone(dump) == [k \in { x \in DOMAIN dump : dump[x] # None } |-> dump[k]]

\* the request handed to _request; on the wire None is written null
Post(u, payload) ==
  [method |-> "POST", url |-> u,
   json |-> [k \in DOMAIN payload |->
               IF payload[k] = None THEN "null" ELSE payload[k]]]

PieInit ==
  /\ ClientInit
  /\ ConcInit
  /\ CancIdle
  /\ PageIdle
  /\ inp \in PieRequests
  /\ out = NoValue

\* lines 208-211
CreatePie ==
  /\ out = NoValue
  /\ out' = [op |-> "create", pie_id |-> None,
             requests |-> << Post(<<"/equity/pies">>, ModelDump(inp)) >>]
  /\ UNCHANGED inp

\* lines 213-217
UpdatePie(pie_id) ==
  /\ out = NoValue
  /\ out' = [op |-> "update", pie_id |-> pie_id,
             requests |-> << Post(<<"/equity/pies/", pie_id>>,
                                  DropNone(ModelDump(inp))) >>]
  /\ UNCHANGED inp

PieNext ==
  \/ CreatePie /\ UNCHANGED notCalc
  \/ \E id \in PieIds : UpdatePie(id) /\ UNCHANGED notCalc

PieSpec == PieInit /\ [][PieNext]_vars

\* C19: update_pie sends exactly the fields whose value is not null,
\* create_pie sends every field, null ones included; each issues one POST,
\* update to /equity/pies/{id} and create to /equity/pies.
C19_PieBodies ==
  out # NoValue =>
    /\ Len(out.requests) = 1
    /\ out.requests[1].method = "POST"
    /\ LET body == out.requests[1].json
       IN /\ out.op = "create" =>
               /\ out.requests[1].url = <<"/equity/pies">>
               /\ DOMAIN body = { ToCamel(f) : f \in PieFields }
               /\ \A f \in PieFields :
                    body[ToCamel(f)] = IF inp[f] = None THEN "null" ELSE inp[f]
          /\ out.op = "update" =>
               /\ out.requests[1].url = <<"/equity/pies/", out.pie_id>>
               /\ DOMAIN body = { ToCamel(f) : f \in { g \in PieFields : inp[g] # None } }
               /\ \A f \in PieFields : inp[f] # None => body[ToCamel(f)] = inp[f]

\* an update that sets an empty name, a goal of 0 and nothing else sends
\* just these two
C19_Witness ==
  /\ out # NoValue
  /\ out.op = "update"
  /\ out.requests[1].url = <<"/equity/pies/", "7">>
  /\ DOMAIN out.requests[1].json = {"name", "goal"}
  /\ out.requests[1].json["name"] = ""
  /\ out.requests[1].json["goal"] = "0.0"

\* {name: 'A', goal: None}: created with goal null, updated without goal
C19_ExampleOfSpec ==
  /\ out # NoValue
  /\ inp["name"] = "A"
  /\ \A f \in PieFields \ {"name"} : inp[f] = None
  /\ \/ out.op = "create" /\ out.requests[1].json["goal"] = "null"
     \/ out.op = "update" /\ DOMAIN out.requests[1].json = {"name"}

\* ------------------------------------------------------------ cancel_order
\* The server knows which orders are cancelled. It answers the DELETE of an
\* open order with 200 and cancels it, and the DELETE of a cancelled order
\* with an error status and a body; either may instead be answered 429, or
\* fail in transport.
OrderIds == { "1", "2" }
AlreadyCancelledStatuses == { 400, 404 }

\* line 196: f"/equity/orders/{order_id}"
CancelUrl(order_id) == <<"/equity/orders/", order_id>>

CancelOutcomes(t, order_id) ==
  { Http(429, h[1], h[2], "b1") : h \in { g \in SeqHeaders(t) : g[1] = IntHdr(0) } }
  \cup Failures
  \cup (IF order_id \in cancelled
        THEN { Http(st, Absent, Absent, b) : st \in AlreadyCancelledStatuses, b \in Bodies }
        ELSE { Http(200, h[1], h[2], "b1") : h \in SeqHeaders(t) })

CancelInit ==
  /\ ClientInit
  /\ ConcInit
  /\ PageIdle
  /\ CalcIdle
  /\ cancelled \in SUBSET OrderIds
  /\ sent = <<>>
  /\ snap = NoSnap

\* earlier calls in a row on this order that ended in the server's error
Repeats(order_id) ==
  IF snap.order_id = order_id /\ result.kind = "api_error" THEN snap.repeats + 1 ELSE 0

\* variant: the client remembers that the order was refused and answers
\* the repeat itself
CancelOrderRemembers(order_id) ==
  /\ IF Repeats(order_id) > 0
       THEN /\ Quiet
            /\ nreq < MaxRequests
            /\ nreq' = nreq + 1
            /\ outcomes' = <<>>
            /\ lastOp' = "call"
            /\ UNCHANGED <<now, rate_limits, total_wait, pc, attempt, url, result,
                           lastDrain, prevDrain, drainsInRow, sleeps,
                           sleptSinceDrain, bs, rx>>
       ELSE Call(CancelUrl(order_id))
  /\ sent' = <<>>
  /\ snap' = [order_id |-> order_id, was |-> order_id \in cancelled,
              repeats |-> Repeats(order_id), rl |-> rate_limits]
  /\ UNCHANGED cancelled

\* lines 195-196: cancel_order enters _request("DELETE", url)
CancelOrder(order_id) ==
  /\ Call(CancelUrl(order_id))
  /\ sent' = <<>>
  /\ snap' = [order_id |-> order_id, was |-> order_id \in cancelled,
              repeats |-> Repeats(order_id), rl |-> rate_limits]
  /\ UNCHANGED cancelled

\* line 76 within cancel_order
CancelBeforeSend ==
  /\ BeforeSend
  /\ UNCHANGED canc

\* lines 78-113 within cancel_order, and what the server does
CancelTransport(o, lat) ==
  /\ Transport(o, lat)
  /\ sent' = Append(sent, [method |-> "DELETE", url |-> url])
  /\ cancelled' = IF o.kind = "http" /\ o.status = 200
                  THEN cancelled \union {snap.order_id}
                  ELSE cancelled
  /\ UNCHANGED snap

notCanc == <<conc, page, calc>>

CancelNext ==
  \/ \E id \in OrderIds : CancelOrder(id) /\ UNCHANGED notCanc
  \/ CancelBeforeSend /\ UNCHANGED notCanc
  \/ \E lat \in Latencies : \E o \in CancelOutcomes(now + lat, snap.order_id) :
        CancelTransport(o, lat) /\ UNCHANGED notCanc
  \/ \E g \in IdleGaps : Idle(g) /\ UNCHANGED <<notCanc, canc>>

CancelSpec == CancelInit /\ [][CancelNext]_vars

\* C20: cancel_order keeps no local order state. A cancel_order of an order
\* that is already cancelled sends the DELETE again, however often it is
\* repeated, and ends with the server's error, status and body unchanged;
\* a cancel_order call changes no client state but the rate-limit entry of
\* its own endpoint key and the wait accumulator.
C20_CancelOrderRepeats ==
  snap # NoSnap =>
    /\ \A i \in DOMAIN sent :
         sent[i] = [method |-> "DELETE", url |-> <<"/equity/orders/", snap.order_id>>]
    /\ Len(sent) = Len(outcomes)
    /\ pc = "done" => Len(sent) >= 1
    /\ (pc = "done" /\ snap.was /\ LastOutcome.kind = "http"
          /\ LastOutcome.status \in AlreadyCancelledStatuses) =>
         result = Res("api_error", LastOutcome.status, LastOutcome.body)
    /\ DOMAIN rate_limits \subseteq
         DOMAIN snap.rl \union { <<"/equity/orders/", snap.order_id>> }
    /\ \A e \in DOMAIN snap.rl :
         e # <<"/equity/orders/", snap.order_id>> =>
           e \in DOMAIN rate_limits /\ rate_limits[e] = snap.rl[e]

\* the second cancel in a row of a cancelled order was sent and refused,
\* with the body of this refusal, while the client tracks the other order
C20_Witness ==
  /\ pc = "done"
  /\ snap.was
  /\ snap.repeats = 1
  /\ Len(sent) >= 1
  /\ result = Res("api_error", 404, "b2")

\* a call that met a rate-limit entry of the other order left it alone
C20_OtherEntryKept ==
  /\ pc = "done"
  /\ snap.order_id = "1"
  /\ <<"/equity/orders/", "2">> \in DOMAIN snap.rl
  /\ <<"/equity/orders/", "1">> \in DOMAIN rate_limits
  /\ rate_limits[<<"/equity/orders/", "1">>] # rate_limits[<<"/equity/orders/", "2">>]

\* ---------------------------------------- the executor, further claims
\* C21: every entry of the rate-limit map holds an integer remaining >= 0,
\* whatever x-ratelimit-remaining values the server sends.
C21_RemainingNonNegative ==
  \A e \in DOMAIN rate_limits :
    /\ rate_limits[e].remaining \in Int
    /\ rate_limits[e].remaining >= 0

\* what does hold: an entry's remaining is an integer, and it is negative
\* only when the last recorded response of the request said so
C21_RemainingIsTheHeaderInteger ==
  \A e \in DOMAIN rate_limits :
    /\ rate_limits[e].remaining \in Int
    /\ rate_limits[e].remaining < 0 =>
         \E i \in DOMAIN outcomes :
           /\ outcomes[i].kind = "http"
           /\ outcomes[i].remaining = IntHdr(rate_limits[e].remaining)

\* C22: within one _request every transport call, the first and every
\* retry, comes straight after a _wait_for_rate_limit for the same URL that
\* read the map as the previous attempt's response left it, and every HTTP
\* response is in the map when _request has returned, raised or slept for
\* a retry.
C22_CheckThenCallThenRecord ==
  [][ Len(outcomes') > Len(outcomes) =>
        LET K == Endpoint(url)
            o == outcomes'[Len(outcomes')]
        IN
        /\ lastOp = "beforeSend"
        /\ bs.url = url
        /\ bs.at + bs.slept = now
        /\ bs.tracked = (K \in DOMAIN rate_limits)
        /\ bs.tracked =>
             /\ bs.remaining = rate_limits[K].remaining
             /\ bs.reset = rate_limits[K].reset
        /\ Len(outcomes) > 0 =>
             /\ bs.at = rx.at + rx.slept
             /\ (Parses(LastOutcome.remaining) /\ Parses(LastOutcome.reset)) =>
                  /\ bs.tracked
                  /\ bs.remaining = IntOf(LastOutcome.remaining, DefaultRemaining)
                  /\ bs.reset = IntOf(LastOutcome.reset, DefaultReset)
        /\ (o.kind = "http" /\ Parses(o.remaining) /\ Parses(o.reset)) =>
             /\ K \in DOMAIN rate_limits'
             /\ rate_limits'[K].remaining = IntOf(o.remaining, DefaultRemaining)
             /\ rate_limits'[K].reset = IntOf(o.reset, DefaultReset)
        /\ pc' \in {"before", "done"}
        /\ pc' = "before" => lastOp' = "transport" /\ rx'.slept > 0
    ]_vars

\* a request answered on its third call: the check before that call read
\* the entry the second 429 had recorded and waited for it, and the answer
\* has replaced that entry
C22_Witness ==
  /\ pc = "done"
  /\ Len(outcomes) = 3
  /\ result.kind = "return_json"
  /\ bs.url = url
  /\ bs.tracked /\ bs.remaining = 0 /\ bs.slept > 0
  /\ outcomes[2].remaining = IntHdr(0)
  /\ rate_limits[Endpoint(url)].remaining = 2

\* C23: _wait_for_rate_limit never rejects and never changes the map: it
\* returns to the transport call after at most one sleep, of more than 0
\* and at most 60 seconds, and it does not sleep when the endpoint has no
\* entry, when remaining > 0, or when the reset time has passed.
C23_CheckOnlyDelays ==
  [][ pc = "before" =>
        LET K == Endpoint(url) IN
        /\ pc' = "send"
        /\ result' = result
        /\ rate_limits' = rate_limits
        /\ now' - now \in 0..MaxSleep
        /\ \/ sleeps' = sleeps /\ now' = now
           \/ /\ Len(sleeps') = Len(sleeps) + 1
              /\ SubSeq(sleeps', 1, Len(sleeps)) = sleeps
              /\ sleeps'[Len(sleeps')].kind = "throttle"
              /\ sleeps'[Len(sleeps')].dur = now' - now
              /\ now' > now
        /\ ( \/ K \notin DOMAIN rate_limits
             \/ rate_limits[K].remaining > 0
             \/ Secs(rate_limits[K].reset) <= now ) => now' = now
    ]_vars

\* the check before the third call met an entry with quota left and a
\* reset time still ahead and did not sleep, after the check before the
\* second call had slept the full 60 seconds
C23_Witness ==
  /\ lastOp = "beforeSend"
  /\ attempt = 2
  /\ bs.tracked /\ bs.remaining > 0
  /\ Secs(bs.reset) > bs.at
  /\ bs.slept = 0
  /\ \E i \in DOMAIN sleeps :
       sleeps[i].kind = "throttle" /\ sleeps[i].dur = MaxSleep

C24_FailureAfter429s ==
  /\ pc = "done"
  /\ Len(outcomes) = 3
  /\ Is429(outcomes[1]) /\ Is429(outcomes[2])
  /\ result = Res("api_error", 500, "b2")

====
